---- MODULE Spec2Model ----
(***************************************************************************)
(* A model of the two batch jobs of the repository:                        *)
(*   src/clean.py         the Language Normalizer (clean_languages)        *)
(*   src/clean_skills.py  the Skill Normalizer (process_skills_file)       *)
(*                                                                         *)
(* A Python str is a sequence of one-character strings.  A Python value    *)
(* that may be a str, None or something else is a record                   *)
(*   [kind |-> "str" | "none" | "nonstr", val |-> <the characters>]        *)
(* where "nonstr" stands for a truthy value that is not a str (a number).  *)
(* A character outside ASCII is written U+XXXX.                            *)
(***************************************************************************)
EXTENDS Integers, Sequences, FiniteSets, TLC

\* ------------------------------------------------------------ Python values

Str(s) == [kind |-> "str", val |-> s]

None == [kind |-> "none", val |-> <<>>]

NonStr == [kind |-> "nonstr", val |-> <<>>]

\* Python truthiness of a value: None and "" are falsy.
Falsy(v) == v.kind = "none" \/ (v.kind = "str" /\ v.val = <<>>)

\* ------------------------------------------------------------ str methods
\* (a value that is used more than once is passed as a parameter)

UpperChars == <<"A","B","C","D","E","F","G","H","I","J","K","L","M",
                "N","O","P","Q","R","S","T","U","V","W","X","Y","Z","U+00C9">>

LowerChars == <<"a","b","c","d","e","f","g","h","i","j","k","l","m",
                "n","o","p","q","r","s","t","u","v","w","x","y","z","U+00E9">>

LowerChar(c) ==
  IF \E i \in 1..Len(UpperChars) : UpperChars[i] = c
  THEN LowerChars[CHOOSE i \in 1..Len(UpperChars) : UpperChars[i] = c]
  ELSE c

UpperChar(c) ==
  IF \E i \in 1..Len(LowerChars) : LowerChars[i] = c
  THEN UpperChars[CHOOSE i \in 1..Len(LowerChars) : LowerChars[i] = c]
  ELSE c

lower(s) == [i \in 1..Len(s) |-> LowerChar(s[i])]

upper(s) == [i \in 1..Len(s) |-> UpperChar(s[i])]

\* str.strip() and the regex class \s
IsSpace(c) == c \in {" ", "\t", "\n"}

SetMin(S) == CHOOSE x \in S : \A y \in S : x <= y

SetMax(S) == CHOOSE x \in S : \A y \in S : x >= y

\* the least element of S, or d when S is empty
FirstOr(S, d) == IF S = {} THEN d ELSE SetMin(S)

\* s[lo..hi] when keep, the indices to keep, is lo..hi with the rest outside
StripTo(s, keep) ==
  IF keep = {} THEN <<>> ELSE SubSeq(s, SetMin(keep), SetMax(keep))

strip(s) == StripTo(s, {i \in 1..Len(s) : ~IsSpace(s[i])})

\* s[k..] starts with the characters of t
StartsAt(s, k, t) ==
  /\ k >= 1
  /\ k + Len(t) - 1 <= Len(s)
  /\ \A i \in 1..Len(t) : s[k + i - 1] = t[i]

\* the same under re.IGNORECASE, t in lower case
StartsAtIgnoreCase(s, k, t) ==
  /\ k >= 1
  /\ k + Len(t) - 1 <= Len(s)
  /\ \A i \in 1..Len(t) : LowerChar(s[k + i - 1]) = t[i]

\* str.split(c) for a one-character separator; i is the first index of c, 0 if none
RECURSIVE split(_, _)
SplitAt(s, c, i) ==
  IF i = 0 THEN <<s>>
  ELSE <<SubSeq(s, 1, i - 1)>> \o split(SubSeq(s, i + 1, Len(s)), c)

split(s, c) == SplitAt(s, c, FirstOr({i \in 1..Len(s) : s[i] = c}, 0))

\* The first index >= k of s whose character is not in the class, Len(s)+1 if none.
SkipWhile(s, k, InClass(_)) ==
  FirstOr({i \in k..Len(s) : ~InClass(s[i])}, Len(s) + 1)

MapStrip(ss) == [i \in 1..Len(ss) |-> strip(ss[i])]

RECURSIVE Flatten(_)
Flatten(sss) == IF sss = <<>> THEN <<>> ELSE Head(sss) \o Flatten(Tail(sss))

\* ------------------------------------------------------------ clean.py: normalize_proficiency

\* re.match(r'^a[1-5]$', prof)
a_level_match(prof) ==
  /\ Len(prof) = 2
  /\ prof[1] = "a"
  /\ prof[2] \in {"1", "2", "3", "4", "5"}

Beginner == <<"B","e","g","i","n","n","e","r">>

Intermediate == <<"I","n","t","e","r","m","e","d","i","a","t","e">>

Advanced == <<"A","d","v","a","n","c","e","d">>

\* the dict literal, as <<key, value>> pairs
proficiency_mapping ==
  { <<<<"b","e","g","i","n","n","e","r">>, Beginner>>,
    <<<<"b","a","s","i","c">>, Beginner>>,
    <<<<"e","l","e","m","e","n","t","a","r","y">>, Beginner>>,
    <<<<"n","o","v","i","c","e">>, Beginner>>,
    <<<<"f","u","n","d","a","m","e","n","t","a","l">>, Beginner>>,
    <<<<"i","n","t","e","r","m","e","d","i","a","t","e">>, Intermediate>>,
    <<<<"m","e","d","i","u","m">>, Intermediate>>,
    <<<<"m","i","d">>, Intermediate>>,
    <<<<"m","i","d"," ","l","e","v","e","l">>, Intermediate>>,
    <<<<"m","i","d","-","l","e","v","e","l">>, Intermediate>>,
    <<<<"a","d","v","a","n","c","e","d">>, Advanced>>,
    <<<<"a","d","v","a","n","c","e">>, Advanced>>,
    <<<<"e","x","p","e","r","t">>, Advanced>>,
    <<<<"f","l","u","e","n","t">>, Advanced>>,
    <<<<"p","r","o","f","i","c","i","e","n","t">>, Advanced>>,
    <<<<"p","r","o","f","e","s","s","i","o","n","a","l">>, Advanced>> }

\* proficiency.lower() on a value that is not a str raises AttributeError
normalize_proficiency_raises(proficiency) == proficiency.kind = "nonstr"

\* lines 47-77, prof being proficiency.lower().strip()
normalize_prof(prof) ==
  IF a_level_match(prof) THEN Str(upper(prof))
  ELSE IF \E kv \in proficiency_mapping : kv[1] = prof
       THEN Str((CHOOSE kv \in proficiency_mapping : kv[1] = prof)[2])
       ELSE None

\* The value returned for None or a str.
normalize_proficiency(proficiency) ==
  IF Falsy(proficiency) \/ proficiency.kind # "str" THEN None
  ELSE normalize_prof(strip(lower(proficiency.val)))

\* ------------------------------------------------------------ clean.py: extract_proficiency_from_name

\* the alternation (beginner|basic|intermediate|advance[d]?|a[1-5]) under
\* re.IGNORECASE: the lengths with which it can match at position k of s
TokenLens(s, k) ==
  {Len(t) : t \in {w \in { <<"b","e","g","i","n","n","e","r">>,
                            <<"b","a","s","i","c">>,
                            <<"i","n","t","e","r","m","e","d","i","a","t","e">>,
                            <<"a","d","v","a","n","c","e">>,
                            <<"a","d","v","a","n","c","e","d">> } :
                       StartsAtIgnoreCase(s, k, w)}}
  \cup (IF k >= 1 /\ k + 1 <= Len(s) /\ LowerChar(s[k]) = "a"
           /\ s[k + 1] \in {"1", "2", "3", "4", "5"}
        THEN {2} ELSE {})

\* a match object: the span lo..hi and group(1); lo = 0 for no match
NoMatch == [lo |-> 0, hi |-> 0, g1 |-> <<>>]

Match(s, lo, hi, glo) == [lo |-> lo, hi |-> hi, g1 |-> SubSeq(s, glo, hi)]

IsLiteralSpace(c) == c = " "

\* r'\((.*?)\)': the leftmost "(" whose first following ")" is reached without
\* crossing a newline; the group stops before the ")"
ParenStarts(s) ==
  {i \in 1..Len(s) :
     /\ s[i] = "("
     /\ \E j \in i + 1..Len(s) :
          /\ s[j] = ")"
          /\ \A m \in i + 1..j - 1 : s[m] \notin {")", "\n"}}

ParenMatch(s, i, j) == [lo |-> i, hi |-> j, g1 |-> SubSeq(s, i + 1, j - 1)]

ParenFrom(s, i) ==
  IF i = 0 THEN NoMatch
  ELSE ParenMatch(s, i, SetMin({m \in i + 1..Len(s) : s[m] = ")"}))

SearchParen(s) == ParenFrom(s, FirstOr(ParenStarts(s), 0))

\* r'- *(tok)' and r', *(tok)': the separator, any literal spaces, a token
\* (alternatives in order, the optional d greedy)
TokAt(s, i) == SkipWhile(s, i + 1, IsLiteralSpace)

AfterAt(s, i, k) == Match(s, i, k + SetMax(TokenLens(s, k)) - 1, k)

AfterFrom(s, i) == IF i = 0 THEN NoMatch ELSE AfterAt(s, i, TokAt(s, i))

SearchAfter(sep, s) ==
  AfterFrom(s, FirstOr({i \in 1..Len(s) :
                          s[i] = sep /\ TokenLens(s, TokAt(s, i)) # {}}, 0))

\* r' (tok)$': a space and a token that ends the string
EndFrom(s, i) == IF i = 0 THEN NoMatch ELSE Match(s, i, Len(s), i + 1)

SearchAtEnd(s) ==
  EndFrom(s, FirstOr({i \in 1..Len(s) :
                        s[i] = " " /\ (Len(s) - i) \in TokenLens(s, i + 1)}, 0))

\* re.search(proficiency_patterns[p], s, re.IGNORECASE), p in 1..4
re_search(p, s) ==
  CASE p = 1 -> SearchParen(s)
    [] p = 2 -> SearchAfter("-", s)
    [] p = 3 -> SearchAfter(",", s)
    [] p = 4 -> SearchAtEnd(s)

\* re.sub(proficiency_patterns[p], '', s): every non-overlapping match m, left to right
RECURSIVE re_sub(_, _)
SubMatch(p, s, m) ==
  IF m.lo = 0 THEN s
  ELSE SubSeq(s, 1, m.lo - 1) \o re_sub(p, SubSeq(s, m.hi + 1, Len(s)))

re_sub(p, s) == SubMatch(p, s, re_search(p, s))

\* lines 93-99 with p the first pattern that matches s, 0 if none: the pattern,
\* extracted_proficiency (None if none) and language_str after the loop
LoopResult(s, p) ==
  IF p = 0
  THEN [pattern |-> 0, extracted_proficiency |-> None, language_str |-> s]
  ELSE [pattern |-> p,
        extracted_proficiency |-> Str(re_search(p, s).g1),
        language_str |-> re_sub(p, s)]

\* lines 93-99 on the string of line 89
ExtractOn(s) == LoopResult(s, FirstOr({p \in 1..4 : re_search(p, s).lo # 0}, 0))

\* lines 89-99
ExtractLoop(language_str) == ExtractOn(strip(lower(language_str)))

\* line 101
ExtractReturn(r) ==
  << strip(r.language_str), normalize_proficiency(r.extracted_proficiency) >>

\* the function: <<cleaned name, normalized proficiency>>
extract_proficiency_from_name(language_str) == ExtractReturn(ExtractLoop(language_str))

\* ------------------------------------------------------------ clean.py: process_batch, one entry

\* re.split(r'\s+and\s+', item): both \s+ are greedy, and no flag is given, so
\* the word is matched as written
AndWord == <<"a","n","d">>

\* the pattern matches from i, the word being at w
AndAt(s, i, w) ==
  /\ IsSpace(s[i])
  /\ StartsAt(s, w, AndWord)
  /\ w + 3 <= Len(s)
  /\ IsSpace(s[w + 3])

AndMatch(s, i, w) == [lo |-> i, hi |-> SkipWhile(s, w + 3, IsSpace) - 1, g1 |-> <<>>]

AndFrom(s, i) == IF i = 0 THEN NoMatch ELSE AndMatch(s, i, SkipWhile(s, i, IsSpace))

SearchAnd(s) ==
  AndFrom(s, FirstOr({i \in 1..Len(s) : AndAt(s, i, SkipWhile(s, i, IsSpace))}, 0))

RECURSIVE re_split_and(_)
SplitMatch(item, m) ==
  IF m.lo = 0 THEN <<item>>
  ELSE <<SubSeq(item, 1, m.lo - 1)>> \o re_split_and(SubSeq(item, m.hi + 1, Len(item)))

re_split_and(item) == SplitMatch(item, SearchAnd(item))

\* line 125
initial_split(lang_str) == MapStrip(split(lang_str, ","))

\* lines 127-130
and_split_all(parts) ==
  Flatten([i \in 1..Len(parts) |-> MapStrip(re_split_and(parts[i]))])

\* lines 125-130
final_languages(lang_str) == and_split_all(initial_split(lang_str))

\* A languages entry (a dict): which of the two keys it has, and their values.
Entry(hasL, l, hasP, p) ==
  [hasLanguage |-> hasL, language |-> IF hasL THEN l ELSE None,
   hasProficiency |-> hasP, proficiency |-> IF hasP THEN p ELSE None]

\* lang_obj.get('proficiency')
get_proficiency(lang_obj) ==
  IF lang_obj.hasProficiency THEN lang_obj.proficiency ELSE None

\* lines 117-123: the entry is passed over
entry_skipped(lang_obj) == ~lang_obj.hasLanguage \/ Falsy(lang_obj.language)

\* line 133: the candidates that are not empty
NonEmpty(s) == s # <<>>

\* A slip of lines 136-138: the entry's own field is never consulted.
final_proficiency_no_fallback(extracted_prof, lang_obj) == extracted_prof

\* lines 136-138, given extracted_prof
final_proficiency(extracted_prof, lang_obj) ==
  IF ~Falsy(extracted_prof) THEN extracted_prof
  ELSE normalize_proficiency(get_proficiency(lang_obj))

\* line 138 raises for this candidate
candidate_raises(lang, lang_obj) ==
  /\ normalize_proficiency_raises(get_proficiency(lang_obj))
  /\ Falsy(extract_proficiency_from_name(lang)[2])

\* lines 136-144, ex being the pair returned at line 134
emit_entry(ex, lang_obj) ==
  IF ex[1] # <<>>
  THEN << Entry(TRUE, Str(strip(ex[1])), TRUE, final_proficiency(ex[2], lang_obj)) >>
  ELSE << >>

\* lines 134-144: what one candidate appends to cleaned_languages
emit(lang, lang_obj) == emit_entry(extract_proficiency_from_name(lang), lang_obj)

\* lines 132-144 over the candidates that are not empty
emit_each(todo, lang_obj) ==
  Flatten([i \in 1..Len(todo) |-> emit(todo[i], lang_obj)])

\* lines 132-144 over the candidates of one entry
emit_all(langs, lang_obj) == emit_each(SelectSeq(langs, NonEmpty), lang_obj)

\* line 138 raises for one of the candidates
any_candidate_raises(langs, lang_obj) ==
  \E i \in 1..Len(langs) : langs[i] # <<>> /\ candidate_raises(langs[i], lang_obj)

\* lines 116-144 for one entry: it raises (lang_str.split on a value that is
\* not a str, or line 138)
entry_raises(lang_obj) ==
  /\ ~entry_skipped(lang_obj)
  /\ \/ lang_obj.language.kind # "str"
     \/ any_candidate_raises(final_languages(lang_obj.language.val), lang_obj)

\* lines 116-144 for one entry that does not raise
entry_cleaned(lang_obj) ==
  IF entry_skipped(lang_obj) THEN << >>
  ELSE emit_all(final_languages(lang_obj.language.val), lang_obj)

\* ------------------------------------------------------------ state

VARIABLES
  \* the loop body of process_batch on one entry (lines 116-144)
  lang_obj,          \* the entry
  candidates,        \* final_languages, the local of line 127
  emitted,           \* what the entry appended to cleaned_languages
  lpc,               \* "split" | "emit" | "done" | "raised"
  \* clean_languages and the document store
  collection,        \* _id -> the document (its 'languages' field)
  rejects,           \* the _ids whose update_one the store answers with an error
  initial,           \* the collection as the run found it
  update_calls,      \* _id -> the update_one calls made for it
  update_raised,     \* _id -> those of them that raised
  handled,           \* _id -> the times process_batch's loop took the document
  pending,           \* the _ids the cursor has yet to yield
  current_batch,
  batch_size,
  total_docs,
  total_updates,
  total_errors,
  processed,
  client,            \* "unbound" | "open" | "closed"
  result,            \* the dict returned
  propagated,        \* an exception left clean_languages
  pc,                \* "connect" | "count" | "iterate" | "done"
  \* process_skills_file and the two files
  input_file,        \* [readable, hasColumn, rows]
  skills,            \* the rows the loop of line 95 has yet to take
  cleaned_skills,
  normalized_map,    \* the dict, as a set of <<normalized, cleaned>> pairs
  to_write,          \* the rows the writer has yet to write
  out_exists,        \* output_file exists
  out_rows,          \* and holds these rows
  sk_status,         \* "running" | "ok" | "no_column" | "error"
  sk_pc              \* "read" | "loop" | "open" | "write" | "done"

langVars == <<lang_obj, candidates, emitted, lpc>>

runVars == <<collection, rejects, initial, update_calls, update_raised, handled,
             pending, current_batch, batch_size, total_docs, total_updates,
             total_errors, processed, client, result, propagated, pc>>

skillVars == <<input_file, skills, cleaned_skills, normalized_map, to_write,
               out_exists, out_rows, sk_status, sk_pc>>

vars == <<langVars, runVars, skillVars>>

\* ------------------------------------------------------------ inputs of the entry loop

\* the most pieces a 'language' string is put together from
MaxPieces == 3

LangPieces ==
  { <<"f","r">>, <<"d","e">>, <<" ">>, <<",">>,
    <<" ","a","n","d"," ">>, <<" ","A","N","D"," ">>,
    <<"(","b","2",")">>, <<"-"," ","a","1">>, <<" ","b","a","s","i","c">> }

NoResult == [status |-> "none", total_updates |-> 0, total_errors |-> 0, error |-> FALSE]

\* clean_languages is not running
RunIdle ==
  /\ collection = << >> /\ rejects = {} /\ initial = << >>
  /\ update_calls = << >> /\ update_raised = << >> /\ handled = << >>
  /\ pending = {} /\ current_batch = << >> /\ batch_size = 1
  /\ total_docs = 0 /\ total_updates = 0 /\ total_errors = 0 /\ processed = 0
  /\ client = "unbound" /\ result = NoResult /\ propagated = FALSE /\ pc = "idle"

\* process_skills_file is not running
SkillsIdle ==
  /\ input_file = [readable |-> FALSE, hasColumn |-> FALSE, rows |-> << >>]
  /\ skills = << >> /\ cleaned_skills = << >> /\ normalized_map = {}
  /\ to_write = << >> /\ out_exists = FALSE /\ out_rows = << >>
  /\ sk_status = "idle" /\ sk_pc = "idle"

\* the entry loop is not running
LangIdle ==
  lang_obj = None /\ candidates = << >> /\ emitted = << >> /\ lpc = "idle"

RECURSIVE LangStrings(_)
LangStrings(n) ==
  IF n = 0 THEN {<< >>}
  ELSE LET shorter == LangStrings(n - 1)
       IN  shorter \cup {s \o p : s \in shorter, p \in LangPieces}

\* the 'proficiency' field: <<key present, value>>
ProficiencyFields ==
  { <<FALSE, None>>, <<TRUE, None>>, <<TRUE, NonStr>>,
    <<TRUE, Str(<<"f","l","u","e","n","t">>)>>,
    <<TRUE, Str(<<"b","2">>)>>,
    <<TRUE, Str(<<" ","A","3">>)>> }

LangInit ==
  /\ \E s \in LangStrings(MaxPieces), pf \in ProficiencyFields :
       lang_obj = Entry(TRUE, Str(s), pf[1], pf[2])
  /\ candidates = << >>
  /\ emitted = << >>
  /\ lpc = "split"
  /\ RunIdle
  /\ SkillsIdle

\* lines 117-123: an empty language string
LangSkip ==
  /\ lpc = "split"
  /\ entry_skipped(lang_obj)
  /\ lpc' = "done"
  /\ UNCHANGED <<lang_obj, candidates, emitted, runVars, skillVars>>

\* lines 125-130
LangSplit ==
  /\ lpc = "split"
  /\ ~entry_skipped(lang_obj)
  /\ candidates' = final_languages(lang_obj.language.val)
  /\ lpc' = "emit"
  /\ UNCHANGED <<lang_obj, emitted, runVars, skillVars>>

\* lines 132-144
LangEmit ==
  /\ lpc = "emit"
  /\ ~entry_raises(lang_obj)
  /\ emitted' = emit_all(candidates, lang_obj)
  /\ lpc' = "done"
  /\ UNCHANGED <<lang_obj, candidates, runVars, skillVars>>

\* line 138 raises: the record's except clause takes over
LangRaise ==
  /\ lpc = "emit"
  /\ entry_raises(lang_obj)
  /\ lpc' = "raised"
  /\ UNCHANGED <<lang_obj, candidates, emitted, runVars, skillVars>>

LangNext == LangSkip \/ LangSplit \/ LangEmit \/ LangRaise

SpecLang == LangInit /\ [][LangNext]_vars

\* ------------------------------------------------------------ claims on the entry loop

\* the candidates of line 132 that append an entry: not empty, and with a name
\* left after the extraction
KeptCandidate(lang) == lang # <<>> /\ extract_proficiency_from_name(lang)[1] # <<>>

CanonicalLevels ==
  { <<"A","1">>, <<"A","2">>, <<"A","3">>, <<"A","4">>, <<"A","5">>,
    Beginner, Intermediate, Advanced }

\* C2: every emitted entry's 'language' holds no embedded proficiency marker
\* (extract_proficiency_from_name matches no pattern on it and returns it
\* unchanged) and its 'proficiency' is absent or a canonical level.
C2_NoMarkerLeft ==
  lpc = "done" =>
    \A i \in 1..Len(emitted) :
      /\ ExtractLoop(emitted[i].language.val).pattern = 0
      /\ extract_proficiency_from_name(emitted[i].language.val)[1] = emitted[i].language.val
      /\ \/ emitted[i].proficiency = None
         \/ /\ emitted[i].proficiency.kind = "str"
            /\ emitted[i].proficiency.val \in CanonicalLevels

\* C3 as claimed: when a pattern matched the candidate, the emitted proficiency
\* is the normalization of the extracted marker, absent included; the entry's
\* own field is used only when no pattern matched.
C3_MarkerAlwaysWins ==
  lpc = "done" =>
    LET kept == SelectSeq(candidates, KeptCandidate)
    IN  /\ Len(emitted) = Len(kept)
        /\ \A i \in 1..Len(kept) :
             LET r == ExtractLoop(kept[i])
             IN  emitted[i].proficiency =
                   IF r.pattern # 0
                   THEN normalize_proficiency(r.extracted_proficiency)
                   ELSE normalize_proficiency(get_proficiency(lang_obj))

\* C3 amended: the emitted proficiency is the normalization of the extracted
\* marker when that is a canonical level; when no pattern matched, or the
\* marker normalizes to absent, it is the normalization of the entry's own
\* 'proficiency' field.
C3_MarkerWinsWhenRecognized ==
  lpc = "done" =>
    LET kept == SelectSeq(candidates, KeptCandidate)
    IN  /\ Len(emitted) = Len(kept)
        /\ \A i \in 1..Len(kept) :
             LET r == ExtractLoop(kept[i])
                 marker == normalize_proficiency(r.extracted_proficiency)
             IN  emitted[i].proficiency =
                   IF r.pattern # 0 /\ marker # None
                   THEN marker
                   ELSE normalize_proficiency(get_proficiency(lang_obj))

\* C3's case: a marker was extracted, it is not a known level, and the entry's
\* own field supplied the emitted proficiency.
C3_Witness ==
  /\ lpc = "done"
  /\ \E i \in 1..Len(emitted) :
       LET kept == SelectSeq(candidates, KeptCandidate)
           r == ExtractLoop(kept[i])
       IN  /\ r.pattern # 0
           /\ normalize_proficiency(r.extracted_proficiency) = None
           /\ emitted[i].proficiency # None

MapLower(ss) == [i \in 1..Len(ss) |-> lower(ss[i])]

\* C8: the string is split on commas, then on the word "and" between
\* whitespace whatever its case; the candidates are trimmed and kept in source
\* order, and each candidate with a name left emits one entry, in that order.
C8_SplitCaseInsensitive ==
  /\ (lpc \in {"emit", "done"} /\ ~entry_skipped(lang_obj)) =>
       MapLower(candidates) = final_languages(lower(lang_obj.language.val))
  /\ lpc = "done" =>
       LET kept == SelectSeq(candidates, KeptCandidate)
       IN  /\ Len(emitted) = Len(kept)
           /\ \A i \in 1..Len(kept) :
                emitted[i].language = Str(extract_proficiency_from_name(kept[i])[1])

\* ------------------------------------------------------------ clean.py: process_batch

\* lines 114-144: cleaned_languages of a document none of whose entries raises
cleaned_languages(doc) ==
  Flatten([i \in 1..Len(doc.languages) |-> entry_cleaned(doc.languages[i])])

\* an entry of the document raises inside the try of line 109
doc_raises(doc) == \E i \in 1..Len(doc.languages) : entry_raises(doc.languages[i])

\* A slip of line 146: every document is written back.
is_dirty_always(cleaned, current_languages) == TRUE

\* line 146: list inequality, by value and in order
is_dirty(cleaned, current_languages) == cleaned # current_languages

\* collection.update_one raises for this _id
update_one_raises(id) == id \in rejects

\* A slip of lines 154-157: the failure is logged but not counted.
on_error_uncounted(st) == st

\* lines 154-157: the except clause of one document
on_error(st) == [st EXCEPT !.errors = @ + 1]

\* lines 147-152, for a dirty document
update_one(doc, cleaned, st) ==
  IF update_one_raises(doc.id)
  THEN on_error([st EXCEPT !.calls[doc.id] = @ + 1, !.raised[doc.id] = @ + 1])
  ELSE [st EXCEPT !.calls[doc.id] = @ + 1,
                  !.coll[doc.id] = [hasLanguages |-> TRUE, languages |-> cleaned],
                  !.updates = @ + 1]

\* lines 146-152
write_back(doc, cleaned, st) ==
  IF is_dirty(cleaned, doc.languages) THEN update_one(doc, cleaned, st) ELSE st

\* lines 110-152, the document counted as taken
process_taken(doc, st) ==
  IF ~doc.hasLanguages THEN st
  ELSE IF doc_raises(doc) THEN on_error(st)
  ELSE write_back(doc, cleaned_languages(doc), st)

\* lines 109-157: one turn of the loop over the batch
process_doc(doc, st) == process_taken(doc, [st EXCEPT !.handled[doc.id] = @ + 1])

\* A slip of line 157: the first failing document ends the loop over the batch.
RECURSIVE process_batch_break(_, _)
BreakOrGoOn(batch, st, next) ==
  IF next.errors > st.errors THEN next ELSE process_batch_break(Tail(batch), next)

process_batch_break(batch, st) ==
  IF batch = << >> THEN st
  ELSE BreakOrGoOn(batch, st, process_doc(Head(batch), st))

\* lines 103-159; st.updates and st.errors leave as the totals of the run,
\* which is what lines 192-193 and 207-208 make of the counts returned
RECURSIVE process_batch(_, _)
process_batch(batch, st) ==
  IF batch = << >> THEN st
  ELSE process_batch(Tail(batch), process_doc(Head(batch), st))

\* A slip of lines 203-208: the documents left after the last full batch are dropped.
remaining_batch_dropped(batch, st) == st

\* lines 203-208
remaining_batch(batch, st) ==
  IF batch # << >> THEN process_batch(batch, st) ELSE st

\* ------------------------------------------------------------ clean.py: clean_languages

\* the most documents that match {"source": "coresignal"}; batch_size ranges
\* over 1..MaxDocs
MaxDocs == 3

FrAdvanced == Entry(TRUE, Str(<<"f","r">>), TRUE, Str(Advanced))

\* the documents a run may find
DocCorpus ==
  << \* already normalized: not written
     [hasLanguages |-> TRUE, languages |-> <<FrAdvanced>>],
     \* a marker in the name
     [hasLanguages |-> TRUE,
      languages |-> << Entry(TRUE, Str(<<"F","r"," ","(","a","2",")">>), TRUE, None) >>],
     \* a clean entry and one naming two languages
     [hasLanguages |-> TRUE,
      languages |-> << FrAdvanced,
                       Entry(TRUE, Str(<<"e","n"," ","a","n","d"," ","d","e">>), FALSE, None) >>],
     \* a dirty entry and one whose 'language' is not a str
     [hasLanguages |-> TRUE,
      languages |-> << Entry(TRUE, Str(<<"F","r"," ","(","a","2",")">>), TRUE, None),
                       Entry(TRUE, NonStr, TRUE, None) >>],
     \* no 'languages' field
     [hasLanguages |-> FALSE, languages |-> << >>] >>

Zero(ids) == [id \in ids |-> 0]

State ==
  [coll |-> collection, calls |-> update_calls, raised |-> update_raised,
   handled |-> handled, updates |-> total_updates, errors |-> total_errors]

Install(st) ==
  /\ collection' = st.coll
  /\ update_calls' = st.calls
  /\ update_raised' = st.raised
  /\ handled' = st.handled
  /\ total_updates' = st.updates
  /\ total_errors' = st.errors

Init ==
  /\ \E n \in 0..MaxDocs :
       \* _ids are handed out in the order of the corpus: any other collection
       \* of n documents is one of these with its _ids renamed, and the cursor
       \* yields them in every order
       /\ \E pick \in {f \in [1..n -> 1..Len(DocCorpus)] :
                          \A i, j \in 1..n : i < j => f[i] <= f[j]} :
            /\ collection = [id \in 1..n |-> DocCorpus[pick[id]]]
            /\ initial = [id \in 1..n |-> DocCorpus[pick[id]]]
       /\ rejects \in SUBSET (1..n)
       /\ update_calls = Zero(1..n)
       /\ update_raised = Zero(1..n)
       /\ handled = Zero(1..n)
  /\ batch_size \in 1..MaxDocs
  /\ pending = {}
  /\ current_batch = << >>
  /\ total_docs = 0 /\ total_updates = 0 /\ total_errors = 0 /\ processed = 0
  /\ client = "unbound"
  /\ result = NoResult
  /\ propagated = FALSE
  /\ pc = "connect"
  /\ LangIdle
  /\ SkillsIdle

\* what no step of the run changes: the store's behaviour, the collection as
\* found, the batch_size argument, and the other two programs
runFixed == <<rejects, initial, batch_size, langVars, skillVars>>

runLocals == <<pending, current_batch, total_docs, processed>>

storeVars == <<collection, update_calls, update_raised, handled, total_updates, total_errors>>

\* lines 222-227: what the except clause returns
Failed == [status |-> "failed", total_updates |-> 0, total_errors |-> 0, error |-> TRUE]

\* lines 228-230, entered with ret about to be returned: client.close() closes
\* the connection; with client never bound it raises UnboundLocalError, which
\* leaves clean_languages in place of ret
Finally(ret) ==
  IF client = "unbound"
  THEN propagated' = TRUE /\ result' = NoResult /\ client' = client
  ELSE propagated' = propagated /\ result' = ret /\ client' = "closed"

\* lines 169-171
Connect ==
  /\ pc = "connect"
  /\ client' = "open"
  /\ pc' = "count"
  /\ UNCHANGED <<storeVars, runLocals, result, propagated, runFixed>>

\* line 169 raises (a connection string MongoClient rejects) with client not
\* yet bound; lines 222-230 follow
ConnectFails ==
  /\ pc = "connect"
  /\ Finally(Failed)
  /\ pc' = "done"
  /\ UNCHANGED <<storeVars, runLocals, runFixed>>

\* lines 174-184
CountDocuments ==
  /\ pc = "count"
  /\ total_docs' = Cardinality(DOMAIN collection)
  /\ total_updates' = 0 /\ total_errors' = 0 /\ processed' = 0
  /\ pending' = DOMAIN collection
  /\ current_batch' = << >>
  /\ pc' = "iterate"
  /\ UNCHANGED <<collection, update_calls, update_raised, handled, client, result, propagated, runFixed>>

\* count_documents, find or the cursor raises (the store became unreachable);
\* lines 222-230 follow
StoreFails ==
  /\ pc \in {"count", "iterate"}
  /\ Finally(Failed)
  /\ pc' = "done"
  /\ UNCHANGED <<storeVars, runLocals, runFixed>>

\* lines 186-201: the cursor yields a document. total_docs counted the same
\* collection, so the division of line 197 has a divisor of at least 1.
NextDoc ==
  /\ pc = "iterate"
  /\ \E id \in pending :
       LET doc == [id |-> id, hasLanguages |-> collection[id].hasLanguages,
                   languages |-> collection[id].languages]
           batch == Append(current_batch, doc)
       IN  /\ pending' = pending \ {id}
           /\ IF Len(batch) = batch_size
              THEN /\ \E st \in {process_batch(batch, State)} : Install(st)
                   /\ processed' = processed + Len(batch)
                   /\ current_batch' = << >>
              ELSE /\ current_batch' = batch
                   /\ UNCHANGED <<storeVars, processed>>
  /\ UNCHANGED <<total_docs, client, result, propagated, pc, runFixed>>

\* lines 203-220 and 228-230: the cursor is exhausted
Complete ==
  /\ pc = "iterate"
  /\ pending = {}
  /\ \E st \in {remaining_batch(current_batch, State)} :
       /\ Install(st)
       /\ Finally([status |-> "completed", total_updates |-> st.updates,
                   total_errors |-> st.errors, error |-> FALSE])
  /\ pc' = "done"
  /\ UNCHANGED <<runLocals, runFixed>>

Next ==
  \/ Connect \/ ConnectFails \/ CountDocuments \/ StoreFails
  \/ NextDoc \/ Complete

Spec == Init /\ [][Next]_vars

\* ------------------------------------------------------------ clean_languages: properties

\* the document as the run found it can be transformed without an error
Transformable(d) == d.hasLanguages /\ ~doc_raises(d)

\* its emitted sequence differs from the sequence it holds
Changed(d) == Transformable(d) /\ cleaned_languages(d) # d.languages

\* processing the document fails: an entry raises, or its update_one does
Failing(id) ==
  /\ initial[id].hasLanguages
  /\ doc_raises(initial[id]) \/ (Changed(initial[id]) /\ update_one_raises(id))

\* what the document holds once it has been processed
Expected(id) ==
  IF Changed(initial[id]) /\ ~update_one_raises(id)
  THEN [hasLanguages |-> TRUE, languages |-> cleaned_languages(initial[id])]
  ELSE initial[id]

Ids == DOMAIN initial

RECURSIVE Sum(_, _)
Sum(f, S) == IF S = {} THEN 0 ELSE Sum(f, S \ {SetMin(S)}) + f[SetMin(S)]

\* C1: a record with 'languages' whose entries raise nothing gets an
\* update_one exactly when its emitted sequence differs from the one it holds,
\* never more than one, and the update replaces the whole array by the emitted
\* sequence; an already normalized record is never written.
C1_WrittenIffChanged ==
  \A id \in Ids :
    Transformable(initial[id]) =>
      /\ update_calls[id] =
           IF handled[id] = 1 /\ cleaned_languages(initial[id]) # initial[id].languages
           THEN 1 ELSE 0
      /\ collection[id] =
           IF update_calls[id] = 1 /\ update_raised[id] = 0
           THEN [hasLanguages |-> TRUE, languages |-> cleaned_languages(initial[id])]
           ELSE initial[id]

\* C1's case: of two records processed without error, one was written and now
\* holds its emitted sequence, the other was already normalized and not written.
C1_Witness ==
  \E a, b \in Ids :
    /\ Transformable(initial[a]) /\ Transformable(initial[b])
    /\ handled[a] = 1 /\ handled[b] = 1
    /\ update_calls[a] = 1 /\ collection[a] # initial[a]
    /\ update_calls[b] = 0 /\ collection[b] = initial[b]

\* C4: a record whose processing fails adds one to the error count and is left
\* as it was; every other record is still processed and holds what it would
\* hold without the failing ones; the run completes with total_errors equal to
\* the number of failing records.
C4_FailureContained ==
  result.status = "completed" =>
    /\ result.total_errors = Cardinality({id \in Ids : Failing(id)})
    /\ \A id \in Ids :
         /\ handled[id] = 1
         /\ Failing(id) => collection[id] = initial[id] /\ update_calls[id] = update_raised[id]
         /\ ~Failing(id) => collection[id] = Expected(id)

\* C4's case: a completed run with a record whose entry raised, a record whose
\* update_one raised, and a record that was written.
C4_Witness ==
  /\ result.status = "completed"
  /\ \E a, b, c \in Ids :
       /\ initial[a].hasLanguages /\ doc_raises(initial[a])
       /\ update_raised[b] = 1
       /\ update_calls[c] = 1 /\ collection[c] # initial[c]

\* C5: the run always ends by returning a result whose status is 'completed' or
\* 'failed', no exception leaves clean_languages, and the connection is closed.
C5_AlwaysReturnsAndCloses ==
  pc = "done" =>
    /\ ~propagated
    /\ result.status \in {"completed", "failed"}
    /\ client = "closed"

\* C9: after a completed run the store, total_updates and total_errors are
\* functions of the records found and of the store's behaviour alone, whatever
\* order the cursor yielded the records in and whatever the batch size.
C9_OrderIndependent ==
  result.status = "completed" =>
    /\ collection = [id \in Ids |-> Expected(id)]
    /\ total_updates = Cardinality({id \in Ids : Expected(id) # initial[id]})
    /\ total_errors = Cardinality({id \in Ids : Failing(id)})

\* C9's case: a completed run over several batches, with records that were
\* written and a record that failed.
C9_Witness ==
  /\ result.status = "completed"
  /\ batch_size < Cardinality(Ids)
  /\ \E a, b \in Ids : a # b /\ collection[a] # initial[a] /\ collection[b] # initial[b]
  /\ \E c \in Ids : Failing(c)

\* C10, as stated: a completed run passed every record to process_batch once,
\* total_updates is the number of update_one operations issued and total_errors
\* the number of failing records.
C10_CountsUpdatesIssued ==
  result.status = "completed" =>
    /\ \A id \in Ids : handled[id] = 1
    /\ result.total_updates = Sum(update_calls, Ids)
    /\ result.total_errors = Cardinality({id \in Ids : Failing(id)})

\* C10, amended: a completed run passed every record to process_batch once,
\* total_updates is the number of update_one operations that returned without
\* raising and total_errors the number of failing records.
C10_CountsUpdatesApplied ==
  result.status = "completed" =>
    /\ \A id \in Ids : handled[id] = 1
    /\ result.total_updates = Sum(update_calls, Ids) - Sum(update_raised, Ids)
    /\ result.total_errors = Cardinality({id \in Ids : Failing(id)})

\* C10's case: a completed run with a full batch and a final partial batch, an
\* update_one that raised and one that did not.
C10_Witness ==
  /\ result.status = "completed"
  /\ batch_size > 1
  /\ Cardinality(Ids) > batch_size
  /\ Cardinality(Ids) % batch_size # 0
  /\ Sum(update_raised, Ids) > 0
  /\ result.total_updates > 0

\* ------------------------------------------------------------ clean_skills.py

\* Every character of the model in code point order; a character outside ASCII
\* is written U+XXXX.
CodeOrder ==
  <<"\t", "\n", " ", "!", "\"", "#", "$", "%", "&", "'", "(", ")", "*", "+",
     ",", "-", ".", "/", "0", "1", "2", "3", "4", "5", "6", "7", "8", "9",
     ":", ";", "<", "=", ">", "?", "@", "A", "B", "C", "D", "E", "F", "G",
     "H", "I", "J", "K", "L", "M", "N", "O", "P", "Q", "R", "S", "T", "U",
     "V", "W", "X", "Y", "Z", "[", "\\", "]", "^", "_", "a", "b", "c",
     "d", "e", "f", "g", "h", "i", "j", "k", "l", "m", "n", "o", "p", "q",
     "r", "s", "t", "u", "v", "w", "x", "y", "z", "{", "|", "}", "~",
     "U+00B7", "U+00C9", "U+00E9", "U+00F8", "U+2022", "U+2023", "U+2043",
     "U+204C", "U+204D", "U+22C4", "U+25AA", "U+25AB", "U+25BA", "U+25C6",
     "U+25E6", "U+2605", "U+2606", "U+2726", "U+2727", "U+274A", "U+274B",
     "U+279C", "U+279D", "U+279E", "U+27A2", "U+27A3", "U+27A4", "U+29BE",
     "U+29BF", "U+29EA", "U+29EB", "U+2B25", "U+2B26", "U+2B27", "U+2B50",
     "U+2E30" >>

\* the class of line 25 besides \s
BulletChars ==
  {"U+2022", "-", "*", "+", ">", "U+25E6", "U+2023", "U+2043", "U+29BF",
    "U+29BE", "U+204C", "U+204D", "U+29EB", "U+29EA", "U+2E30", "U+25AA",
    "U+25AB", "U+25BA", "U+27A2", "U+27A3", "U+27A4", "U+00B7", "U+22C4",
    "U+2B27", "U+2B26", "U+2B25", "U+2B50", "U+279C", "U+279D", "U+279E",
    "U+2726", "U+2727", "U+274B", "U+274A", "U+2605", "U+2606", "U+25C6" }

Letters ==
  {LowerChars[i] : i \in 1..Len(LowerChars)} \cup {UpperChars[i] : i \in 1..Len(UpperChars)}
  \cup {"U+00F8"}

Digits == {"0", "1", "2", "3", "4", "5", "6", "7", "8", "9"}

\* the regex class \w
IsWordChar(c) == c \in Letters \/ c \in Digits \/ c = "_"

IsWordOrSpace(c) == IsWordChar(c) \/ IsSpace(c)

Ord(c) == CHOOSE i \in 1..Len(CodeOrder) : CodeOrder[i] = c

IsAscii(c) == Ord(c) <= Ord("~")

\* line 25: re.sub of the leading run of the class
DropLeadingBullets(s) ==
  SubSeq(s, FirstOr({i \in 1..Len(s) : ~(IsSpace(s[i]) \/ s[i] \in BulletChars)},
                    Len(s) + 1), Len(s))

\* lines 19-30; the str returned
clean_skill_name(skill) ==
  IF skill.kind # "str" THEN << >> ELSE strip(DropLeadingBullets(skill.val))

\* line 41: re.sub(r'[^\w\s]', '', normalized)
RemovePunctuation(s) == SelectSeq(s, IsWordOrSpace)

\* line 44: re.sub(r'\s+', ' ', normalized)
CollapseSpaces(s) ==
  Flatten([i \in 1..Len(s) |->
             IF ~IsSpace(s[i]) THEN <<s[i]>>
             ELSE IF i > 1 /\ IsSpace(s[i - 1]) THEN << >> ELSE <<" ">>])

\* line 50 on one character: NFKD, then what ASCII keeps of it
AsciiFold(c) ==
  IF IsAscii(c) THEN <<c>>
  ELSE IF c = "U+00E9" THEN <<"e">>
  ELSE IF c = "U+00C9" THEN <<"E">>
  ELSE << >>

FoldAll(s) == Flatten([i \in 1..Len(s) |-> AsciiFold(s[i])])

\* lines 32-52, for the str clean_skill_name returns
normalize_for_comparison(skill) ==
  FoldAll(strip(CollapseSpaces(RemovePunctuation(lower(skill)))))

\* lines 54-72
is_valid_skill(skill, normalized_skill) ==
  /\ normalized_skill # << >>
  /\ ~(\A i \in 1..Len(normalized_skill) : normalized_skill[i] \in Digits)
  /\ ~(Len(normalized_skill) = 0 /\ Len(skill) > 0)
  /\ Len(normalized_skill) >= 2

\* str < str: by code point, a proper prefix first
StrLess(a, b) ==
  \E k \in 1..Len(b) :
    /\ \A i \in 1..k - 1 : i <= Len(a) /\ a[i] = b[i]
    /\ \/ k = Len(a) + 1
       \/ k <= Len(a) /\ Ord(a[k]) < Ord(b[k])

\* list.sort(): stable, ascending
SortRank(xs, j) ==
  Cardinality({k \in 1..Len(xs) : StrLess(xs[k], xs[j]) \/ (k < j /\ xs[k] = xs[j])})

Sort(xs) == [i \in 1..Len(xs) |-> xs[CHOOSE j \in 1..Len(xs) : SortRank(xs, j) = i - 1]]

\* A slip of line 105: the dict is never consulted.
seen_never(normalized_skill, map) == FALSE

\* line 105: normalized_skill in normalized_map
seen(normalized_skill, map) == \E kv \in map : kv[1] = normalized_skill

\* lines 103-107, with the two strings of lines 97 and 100
keep_skill(cleaned_skill, normalized_skill) ==
  IF is_valid_skill(cleaned_skill, normalized_skill) /\ ~seen(normalized_skill, normalized_map)
  THEN /\ normalized_map' = normalized_map \cup {<<normalized_skill, cleaned_skill>>}
       /\ cleaned_skills' = Append(cleaned_skills, cleaned_skill)
  ELSE UNCHANGED <<normalized_map, cleaned_skills>>

\* the most rows the input file holds
MaxSkills == 3

\* the values df['skills'].tolist() may hold; NonStr is the NaN of an empty cell
SkillCorpus ==
  { Str(<<"C","a","f","U+00E9">>), Str(<<"C","A","F","E"," ">>),
    Str(<<"U+2022"," ","P","y">>), Str(<<"p","y","!">>),
    Str(<<"C","+","+">>), Str(<<"1","2">>), NonStr }

RECURSIVE SkillRows(_)
SkillRows(n) ==
  IF n = 0 THEN {<< >>}
  ELSE {Append(r, s) : r \in SkillRows(n - 1), s \in SkillCorpus} \cup SkillRows(n - 1)

Header == <<"s","k","i","l","l","s">>

SkillsInit ==
  /\ \/ \E rows \in SkillRows(MaxSkills) :
          input_file = [readable |-> TRUE, hasColumn |-> TRUE, rows |-> rows]
     \/ input_file = [readable |-> TRUE, hasColumn |-> FALSE, rows |-> << >>]
     \/ input_file = [readable |-> FALSE, hasColumn |-> FALSE, rows |-> << >>]
  /\ skills = << >>
  /\ cleaned_skills = << >>
  /\ normalized_map = {}
  /\ to_write = << >>
  /\ out_exists = FALSE
  /\ out_rows = << >>
  /\ sk_status = "running"
  /\ sk_pc = "read"
  /\ LangIdle
  /\ RunIdle

skFixed == <<input_file, langVars, runVars>>

\* lines 81-93
ReadSkills ==
  /\ sk_pc = "read"
  /\ input_file.readable /\ input_file.hasColumn
  /\ skills' = input_file.rows
  /\ cleaned_skills' = << >>
  /\ normalized_map' = {}
  /\ sk_pc' = "loop"
  /\ UNCHANGED <<to_write, out_exists, out_rows, sk_status, skFixed>>

\* line 81 raises: lines 124-125
ReadFails ==
  /\ sk_pc = "read"
  /\ ~input_file.readable
  /\ sk_status' = "error"
  /\ sk_pc' = "done"
  /\ UNCHANGED <<skills, cleaned_skills, normalized_map, to_write, out_exists, out_rows, skFixed>>

\* lines 83-85
ColumnMissing ==
  /\ sk_pc = "read"
  /\ input_file.readable /\ ~input_file.hasColumn
  /\ sk_status' = "no_column"
  /\ sk_pc' = "done"
  /\ UNCHANGED <<skills, cleaned_skills, normalized_map, to_write, out_exists, out_rows, skFixed>>

\* lines 95-107: one turn of the loop
NextSkill ==
  /\ sk_pc = "loop"
  /\ skills # << >>
  /\ \E cleaned_skill \in {clean_skill_name(Head(skills))} :
       keep_skill(cleaned_skill, normalize_for_comparison(cleaned_skill))
  /\ skills' = Tail(skills)
  /\ UNCHANGED <<to_write, out_exists, out_rows, sk_status, sk_pc, skFixed>>

\* lines 109-112: the loop is over
SortSkills ==
  /\ sk_pc = "loop"
  /\ skills = << >>
  /\ cleaned_skills' = Sort(cleaned_skills)
  /\ sk_pc' = "open"
  /\ UNCHANGED <<skills, normalized_map, to_write, out_exists, out_rows, sk_status, skFixed>>

\* line 115: open(output_file, 'w') creates the file, or empties it
OpenOutput ==
  /\ sk_pc = "open"
  /\ out_exists' = TRUE
  /\ out_rows' = << >>
  /\ to_write' = <<Header>> \o cleaned_skills
  /\ sk_pc' = "write"
  /\ UNCHANGED <<skills, cleaned_skills, normalized_map, sk_status, skFixed>>

\* line 115 raises (the directory is missing or not writable): lines 124-125
OpenFails ==
  /\ sk_pc = "open"
  /\ sk_status' = "error"
  /\ sk_pc' = "done"
  /\ UNCHANGED <<skills, cleaned_skills, normalized_map, to_write, out_exists, out_rows, skFixed>>

\* lines 117-119: one writerow
WriteRow ==
  /\ sk_pc = "write"
  /\ to_write # << >>
  /\ out_rows' = Append(out_rows, Head(to_write))
  /\ to_write' = Tail(to_write)
  /\ UNCHANGED <<skills, cleaned_skills, normalized_map, out_exists, sk_status, sk_pc, skFixed>>

\* a write raises (the disk is full): the with block closes the file as it
\* is, then lines 124-125
WriteFails ==
  /\ sk_pc = "write"
  /\ to_write # << >>
  /\ sk_status' = "error"
  /\ sk_pc' = "done"
  /\ UNCHANGED <<skills, cleaned_skills, normalized_map, to_write, out_exists, out_rows, skFixed>>

\* lines 121-122: every row is written
CloseOutput ==
  /\ sk_pc = "write"
  /\ to_write = << >>
  /\ sk_status' = "ok"
  /\ sk_pc' = "done"
  /\ UNCHANGED <<skills, cleaned_skills, normalized_map, to_write, out_exists, out_rows, skFixed>>

SkillsNext ==
  \/ ReadSkills \/ ReadFails \/ ColumnMissing \/ NextSkill \/ SortSkills
  \/ OpenOutput \/ OpenFails \/ WriteRow \/ WriteFails \/ CloseOutput

SpecSkills == SkillsInit /\ [][SkillsNext]_vars

\* ------------------------------------------------------------ process_skills_file: properties

Key(v) == normalize_for_comparison(clean_skill_name(v))

Valid(v) == is_valid_skill(clean_skill_name(v), Key(v))

\* the rows the loop has gone through
Processed == SubSeq(input_file.rows, 1, Len(input_file.rows) - Len(skills))

\* the rows that are the first valid one with their key
FirstOccurrences(rows) ==
  {i \in 1..Len(rows) :
     Valid(rows[i]) /\ \A j \in 1..i - 1 : ~(Valid(rows[j]) /\ Key(rows[j]) = Key(rows[i]))}

Retained == {cleaned_skills[i] : i \in 1..Len(cleaned_skills)}

\* C6: the retained skills are, one per normalized key, the cleaned form of the
\* first valid input with that key; no two retained skills share a key, and a
\* later input with a key already seen neither replaces nor adds an entry.
C6_FirstOccurrenceKept ==
  sk_pc # "read" =>
    /\ Retained = {clean_skill_name(Processed[i]) : i \in FirstOccurrences(Processed)}
    /\ Len(cleaned_skills) = Cardinality(FirstOccurrences(Processed))
    /\ \A i, j \in 1..Len(cleaned_skills) :
         i # j => normalize_for_comparison(cleaned_skills[i]) #
                  normalize_for_comparison(cleaned_skills[j])
    /\ sk_status = "ok" => out_rows = <<Header>> \o cleaned_skills

\* C6's case: the run succeeded on an input where a later row spells an earlier
\* row's key differently; the earlier spelling is retained, the later is not.
C6_Witness ==
  /\ sk_status = "ok"
  /\ \E i, j \in 1..Len(input_file.rows) :
       /\ i < j
       /\ Valid(input_file.rows[i]) /\ Valid(input_file.rows[j])
       /\ Key(input_file.rows[i]) = Key(input_file.rows[j])
       /\ clean_skill_name(input_file.rows[i]) # clean_skill_name(input_file.rows[j])
       /\ clean_skill_name(input_file.rows[i]) \in Retained
       /\ clean_skill_name(input_file.rows[j]) \notin Retained

\* C7: once the function has returned, an output file exists only if the full
\* pass succeeded, and then it holds the header and every retained skill.
C7_NoPartialOutput ==
  sk_pc = "done" =>
    (out_exists => sk_status = "ok" /\ out_rows = <<Header>> \o cleaned_skills)

====
